---- MODULE Spec2Model ----
(***************************************************************************)
(* Model of the optimisation engine of algo-arcade:                        *)
(*   - knapsack_dp and knapsack_greedy (backend/algos/opt), run one after  *)
(*     the other on the same instance as compare_algorithms does;          *)
(*   - tsp_2opt and tsp_simulated_annealing (backend/algos/opt, /meta);    *)
(*   - solve_packing and solve_route (backend/services), which choose a    *)
(*     solver by its selector string and build the result dict.            *)
(*                                                                         *)
(* Conventions.  Python lists are sequences, so item indices and route     *)
(* positions are 1-based here (Python index p is position p + 1); route    *)
(* ELEMENTS keep their Python values 0..n-1.  Costs, weights, budget and   *)
(* max_weight are counted in units of 1/(100*Sub), so that int(x * 100)    *)
(* is x \div Sub and an amount is a whole multiple of 0.01 exactly when    *)
(* it is divisible by Sub.  Distances count units of 1/Prec and are        *)
(* floats of MantBits significant bits: math.sqrt and every addition of    *)
(* distances round to the nearest such float.  None is the empty tuple.    *)
(***************************************************************************)
EXTENDS Integers, Sequences, FiniteSets, TLC

\* ------------------------------------------------------------------ bounds
MaxItems == 2
MaxCost == 3
MaxBudget == 4
Sub == 2
MaxN == 4
MaxIter == 3
Prec == 100
MantBits == 8

Values == {1, 2}
Weights == {0, Sub}
WeightCaps == {0, Sub, 2 * Sub}
Cats == {"", "a"}
Limits == {0, 1}
Layouts == { << <<0, 0>>, <<2, 2>>, <<0, 2>>, <<2, 0>>, <<1, 1>> >>,
             << <<0, 0>>, <<3, 0>>, <<3, 4>>, <<0, 4>>, <<0, 0>> >>,
             << <<0, 0>>, <<2, 0>>, <<1, 0>>, <<3, 0>>, <<1, 0>> >> }
InitialTemps == {0, 16}
MinTemps == {0, 4, 16}

None == <<>>

VARIABLES
    pc,                 \* position of the run
    \* -- the knapsack instance (arguments of both solvers)
    items, budget, max_weight, category_limit,
    \* -- knapsack_dp locals
    dp, dp_keys, parent, i, current_states, j,
    best_value, best_state, current_state, selected_indices, dp_ret,
    \* -- knapsack_greedy locals
    indexed_items, g_pos, selected_items, total_cost, total_weight,
    total_value, category_counts,
    \* -- the TSP call: solver and arguments
    algorithm, coordinates, initial_route, max_iterations, initial_temp,
    min_temp,
    \* -- tsp_2opt / tsp_simulated_annealing locals
    route, best_route, best_distance, current_distance, improved,
    iterations, temp, ret,
    start_route,        \* history: the route the search started from
    scanned,            \* history: the pairs (i, k) tried in the last scan
    shortest_seen,      \* history: least length computed in this call
    \* -- solve_packing / solve_route: the service called, the dict it
    \* returned, the message of the ValueError it raised for the selector
    called, result, error

inputVars == <<items, budget, max_weight, category_limit>>
dpVars == <<dp, dp_keys, parent, i, current_states, j, best_value,
            best_state, current_state, selected_indices, dp_ret>>
greedyVars == <<indexed_items, g_pos, selected_items, total_cost,
                total_weight, total_value, category_counts>>
knapVars == <<inputVars, dpVars, greedyVars>>
tspArgs == <<algorithm, coordinates, initial_route, max_iterations,
             initial_temp, min_temp>>
tspLocals == <<route, best_route, best_distance, current_distance, improved,
               iterations, temp, ret, start_route, scanned, shortest_seen>>
tspVars == <<tspArgs, tspLocals>>
svcVars == <<called, result, error>>

\* ------------------------------------------------------------ helpers
RECURSIVE SumOver(_, _, _)
\* sum(item[field] for item in selected): the items named by the index
\* sequence sel, with multiplicity
SumOver(its, sel, field) ==
    IF sel = <<>> THEN 0
    ELSE its[Head(sel)][field] + SumOver(its, Tail(sel), field)

RECURSIVE Reverse(_)
Reverse(s) == IF s = <<>> THEN <<>> ELSE Append(Reverse(Tail(s)), Head(s))

\* int(x * 100)
ScaleInt(x) == x \div Sub

\* item.get('category', '')
CategoryOf(item) == item.category

\* `if category_limit and category in category_limit`
Limited(limit, cat) == DOMAIN limit # {} /\ cat \in DOMAIN limit

budget_int == ScaleInt(budget)
max_weight_int == ScaleInt(max_weight)

\* ------------------------------------------------------------ knapsack_dp
\* variant: an exact fit is turned away as well
ExceedsOrMeets(new_b, new_w) == new_b >= budget_int \/ new_w >= max_weight_int

\* `if new_b > budget_int or new_w > max_weight_int: continue`
Exceeds(new_b, new_w) == new_b > budget_int \/ new_w > max_weight_int

\* dp.get((b, w), default)
DpGet(d, s, default) == IF s \in DOMAIN d THEN d[s] ELSE default

\* `if new_value > dp.get((new_b, new_w), -1.0)`
Improves(new_value, old) == new_value > old

\* One turn of the inner loop: the state current_states[j] under item i.
DpStep ==
    /\ pc = "dp_loop"
    /\ LET item == items[i]
           cost_int == ScaleInt(item.cost)
           weight_int == ScaleInt(item.weight)
           value == item.value
           b == current_states[j][1]
           w == current_states[j][2]
           new_b == b + cost_int
           new_w == w + weight_int
           new == <<new_b, new_w>>
           current_value == DpGet(dp, <<b, w>>, 0)
           new_value == current_value + value
           take == /\ ~Exceeds(new_b, new_w)
                   /\ Improves(new_value, DpGet(dp, new, -1))
           dpN == IF take
                  THEN [s \in DOMAIN dp \cup {new} |->
                            IF s = new THEN new_value ELSE dp[s]]
                  ELSE dp
           keysN == IF take /\ new \notin DOMAIN dp
                    THEN Append(dp_keys, new) ELSE dp_keys
           parentN == IF take
                      THEN [s \in DOMAIN parent \cup {new} |->
                                IF s = new THEN <<b, w, i>> ELSE parent[s]]
                      ELSE parent
       IN  /\ dp' = dpN
           /\ dp_keys' = keysN
           /\ parent' = parentN
           /\ IF j < Len(current_states)
              THEN /\ j' = j + 1
                   /\ UNCHANGED <<i, current_states, pc>>
              ELSE /\ j' = 1
                   /\ i' = i + 1
                   /\ current_states' = keysN
                   /\ pc' = IF i < Len(items) THEN "dp_loop" ELSE "dp_best"
    /\ UNCHANGED <<inputVars, best_value, best_state, current_state,
                   selected_indices, dp_ret, greedyVars>>
    /\ UNCHANGED <<tspVars, svcVars>>

RECURSIVE BestFrom(_, _, _, _)
\* the scan `for (b, w), value in dp.items(): if value > best_value`
BestFrom(keys, d, bv, bs) ==
    IF keys = <<>> THEN <<bv, bs>>
    ELSE IF d[Head(keys)] > bv
         THEN BestFrom(Tail(keys), d, d[Head(keys)], Head(keys))
         ELSE BestFrom(Tail(keys), d, bv, bs)

DpBest ==
    /\ pc = "dp_best"
    /\ LET r == BestFrom(dp_keys, dp, 0, <<0, 0>>)
       IN  /\ best_value' = r[1]
           /\ best_state' = r[2]
           /\ current_state' = r[2]
    /\ selected_indices' = <<>>
    /\ pc' = "dp_trace"
    /\ UNCHANGED <<inputVars, dp, dp_keys, parent, i, current_states, j,
                   dp_ret, greedyVars>>
    /\ UNCHANGED <<tspVars, svcVars>>

\* `while current_state in parent and parent[current_state] is not None`
TraceMore == current_state \in DOMAIN parent /\ parent[current_state] # None

\* A predecessor chain without a cycle has fewer links than there are
\* states; one link more is enough to show a chain that never ends.
TraceCap == Len(dp_keys) + 1

DpTraceStep ==
    /\ pc = "dp_trace"
    /\ TraceMore
    /\ Len(selected_indices) < TraceCap
    /\ LET p == parent[current_state]
       IN  /\ selected_indices' = Append(selected_indices, p[3])
           /\ current_state' = <<p[1], p[2]>>
    /\ UNCHANGED <<pc, inputVars, dp, dp_keys, parent, i, current_states, j,
                   best_value, best_state, dp_ret, greedyVars>>
    /\ UNCHANGED <<tspVars, svcVars>>

RECURSIVE FilterFrom(_, _, _, _)
\* the post-processing loop over the traced selection
FilterFrom(sel, its, limit, counts) ==
    IF sel = <<>> THEN <<>>
    ELSE LET idx == Head(sel)
             cat == CategoryOf(its[idx])
         IN  IF cat \in DOMAIN limit
             THEN IF counts[cat] >= limit[cat]
                  THEN FilterFrom(Tail(sel), its, limit, counts)
                  ELSE <<idx>> \o FilterFrom(Tail(sel), its, limit,
                                    [counts EXCEPT ![cat] = @ + 1])
             ELSE <<idx>> \o FilterFrom(Tail(sel), its, limit, counts)

\* `if category_limit:` ... `selected_indices = filtered_indices`
ApplyCategoryLimit(sel, its, limit) ==
    IF DOMAIN limit # {}
    THEN FilterFrom(sel, its, limit, [c \in Cats |-> 0])
    ELSE sel

\* the loop has ended: reverse, filter, build the result
DpFinish ==
    /\ pc = "dp_trace"
    /\ ~TraceMore
    /\ LET sel == ApplyCategoryLimit(Reverse(selected_indices), items,
                                     category_limit)
       IN  dp_ret' = [selected |-> sel,
                      total_value |-> SumOver(items, sel, "value"),
                      total_cost |-> SumOver(items, sel, "cost"),
                      total_weight |-> SumOver(items, sel, "weight")]
    /\ pc' = "greedy_sort"
    /\ UNCHANGED <<inputVars, dp, dp_keys, parent, i, current_states, j,
                   best_value, best_state, current_state, selected_indices,
                   greedyVars>>
    /\ UNCHANGED <<tspVars, svcVars>>

\* -------------------------------------------------------- knapsack_greedy
\* variant: the items are ordered by value alone
KeyGreaterByValue(a, b) == a.value > b.value

\* key(a) > key(b) for the sort key value / cost, 0 when cost is 0
KeyGreater(a, b) ==
    LET na == IF a.cost > 0 THEN a.value ELSE 0
        da == IF a.cost > 0 THEN a.cost ELSE 1
        nb == IF b.cost > 0 THEN b.value ELSE 0
        db == IF b.cost > 0 THEN b.cost ELSE 1
    IN  na * db > nb * da

\* list.sort(key, reverse=True) is stable: x comes before y when its key is
\* greater, or equal with x earlier in the list
Before(its, x, y) ==
    \/ KeyGreater(its[x], its[y])
    \/ (~KeyGreater(its[y], its[x]) /\ x < y)

SortedIndices(its) ==
    LET n == Len(its)
        rank(x) == 1 + Cardinality({y \in 1..n : y # x /\ Before(its, y, x)})
    IN  [p \in 1..n |-> CHOOSE x \in 1..n : rank(x) = p]

GreedySort ==
    /\ pc = "greedy_sort"
    /\ indexed_items' = SortedIndices(items)
    /\ g_pos' = 1
    /\ selected_items' = <<>>
    /\ total_cost' = 0
    /\ total_weight' = 0
    /\ total_value' = 0
    /\ category_counts' = [c \in Cats |-> 0]
    /\ pc' = IF Len(items) > 0 THEN "greedy_loop" ELSE "done"
    /\ UNCHANGED <<inputVars, dpVars>>
    /\ UNCHANGED <<tspVars, svcVars>>

\* `if category:` (the empty string is falsy)
Counted(cat) == cat # ""

\* One turn of the loop over the sorted items.
GreedyStep ==
    /\ pc = "greedy_loop"
    /\ LET idx == indexed_items[g_pos]
           item == items[idx]
           category == CategoryOf(item)
           skip == \/ total_cost + item.cost > budget
                   \/ total_weight + item.weight > max_weight
                   \/ /\ Limited(category_limit, category)
                      /\ category_counts[category] >= category_limit[category]
       IN  IF skip
           THEN UNCHANGED <<selected_items, total_cost, total_weight,
                            total_value, category_counts>>
           ELSE /\ selected_items' = Append(selected_items, idx)
                /\ total_cost' = total_cost + item.cost
                /\ total_weight' = total_weight + item.weight
                /\ total_value' = total_value + item.value
                /\ category_counts' =
                       IF Counted(category)
                       THEN [category_counts EXCEPT ![category] = @ + 1]
                       ELSE category_counts
    /\ g_pos' = g_pos + 1
    /\ pc' = IF g_pos < Len(indexed_items) THEN "greedy_loop" ELSE "done"
    /\ UNCHANGED <<inputVars, dpVars, indexed_items>>
    /\ UNCHANGED <<tspVars, svcVars>>

\* ------------------------------------------------------ distance, 2-opt move
RECURSIVE SqrtSearch(_, _, _)
\* the largest r in lo..hi with r * r <= x
SqrtSearch(x, lo, hi) ==
    IF lo = hi THEN lo
    ELSE LET mid == (lo + hi + 1) \div 2
         IN  IF mid * mid <= x THEN SqrtSearch(x, mid, hi)
             ELSE SqrtSearch(x, lo, mid - 1)

\* math.sqrt in fixed point: the result counts units of 1/Prec, rounded down
FixedSqrt(x) == SqrtSearch(x * Prec * Prec, 0, (x + 1) * Prec)

RECURSIVE Quantum(_, _)
\* the spacing of the floats around x >= 0: the least q = 2^e, from q on,
\* with x < 2^MantBits * q.  A float carries MantBits significant bits (53
\* in the build, fewer here); amounts below 2^MantBits units are exact.
Quantum(x, q) == IF x < (2 ^ MantBits) * q THEN q ELSE Quantum(x, 2 * q)

\* the float nearest to x >= 0, ties to the even neighbour: the rounding
\* every float operation (math.sqrt, +) ends with
Fl(x) ==
    LET q == Quantum(x, 1)
        lower == x - (x % q)
    IN  IF 2 * (x % q) < q THEN lower
        ELSE IF 2 * (x % q) > q THEN lower + q
        ELSE IF (lower \div q) % 2 = 0 THEN lower ELSE lower + q

\* the largest squared distance between two sites of a layout
MaxSquare ==
    LET sq(a, b) == (a[1] - b[1]) * (a[1] - b[1]) + (a[2] - b[2]) * (a[2] - b[2])
        all == UNION {{sq(lay[p], lay[q]) : p, q \in DOMAIN lay} : lay \in Layouts}
    IN  CHOOSE m \in all : \A x \in all : x <= m

RECURSIVE SqrtUpTo(_)
SqrtUpTo(k) ==
    IF k < 0 THEN <<>> ELSE Append(SqrtUpTo(k - 1), Fl(FixedSqrt(k)))

\* math.sqrt, computed once for every squared distance that can occur
SqrtTable == SqrtUpTo(MaxSquare)

Sqrt(x) == SqrtTable[x + 1]

calculate_distance(coord1, coord2) ==
    Sqrt((coord1[1] - coord2[1]) * (coord1[1] - coord2[1])
         + (coord1[2] - coord2[2]) * (coord1[2] - coord2[2]))

\* variant: the leg from the last site back to the first is left out
NextOpen(rt, p) == IF p < Len(rt) THEN p + 1 ELSE p

\* j = (i + 1) % len(route), as positions
NextWrap(rt, p) == (p % Len(rt)) + 1

RECURSIVE LegsFrom(_, _, _, _)
\* the loop `for i in range(len(route))` from position p on, total being
\* the sum so far: total += calculate_distance(...)
LegsFrom(rt, coords, p, total) ==
    IF p > Len(rt) THEN total
    ELSE LegsFrom(rt, coords, p + 1,
                  Fl(total + calculate_distance(coords[rt[p] + 1],
                                                coords[rt[NextWrap(rt, p)] + 1])))

calculate_route_distance(rt, coords) ==
    IF Len(rt) < 2 THEN 0 ELSE LegsFrom(rt, coords, 1, 0)

\* variant: the reversed segment starts one position early
two_opt_swap_early(rt, ci, ck) ==
    SubSeq(rt, 1, ci - 1) \o Reverse(SubSeq(rt, ci, ck + 1))
        \o SubSeq(rt, ck + 2, Len(rt))

\* route[:i] + route[i:k+1][::-1] + route[k+1:]   (i, k are Python indices)
two_opt_swap(rt, ci, ck) ==
    SubSeq(rt, 1, ci) \o Reverse(SubSeq(rt, ci + 1, ck + 1))
        \o SubSeq(rt, ck + 2, Len(rt))

\* list(range(n))
Range(n) == [p \in 1..n |-> p - 1]

\* ------------------------------------------------------------------ tsp_2opt
\* variant: the comparison is turned around
Longer(new_distance, best) == new_distance > best

\* `if new_distance < best_distance`
Shorter(new_distance, best) == new_distance < best

\* the pairs (i, k) the two nested loops visit
CutPairs(n) == {pr \in (1..(n - 2)) \X (2..(n - 1)) : pr[1] < pr[2]}

\* the pair comes earlier in the scan: i ascending, then k ascending
ScanBefore(a, b) == a[1] < b[1] \/ (a[1] = b[1] /\ a[2] <= b[2])

\* the pairs whose reversal is shorter than best_distance
Improving(rt, coords, best) ==
    {pr \in CutPairs(Len(coords)) :
        Shorter(calculate_route_distance(two_opt_swap(rt, pr[1], pr[2]), coords),
                best)}

TwoOptStart ==
    /\ pc = "call"
    /\ algorithm = "2opt"
    /\ LET n == Len(coordinates)
       IN  IF n < 2
           THEN /\ ret' = <<Range(n), 0>>
                /\ start_route' = Range(n)
                /\ pc' = "returned"
                /\ UNCHANGED <<route, best_route, best_distance, improved,
                               iterations, shortest_seen>>
           ELSE LET r == IF initial_route = None THEN Range(n)
                         ELSE initial_route
                IN  /\ route' = r
                    /\ start_route' = r
                    /\ best_route' = r
                    /\ best_distance' = calculate_route_distance(r, coordinates)
                    /\ shortest_seen' = calculate_route_distance(r, coordinates)
                    /\ improved' = TRUE
                    /\ iterations' = 0
                    /\ pc' = "2opt_loop"
                    /\ UNCHANGED ret
    /\ UNCHANGED <<tspArgs, current_distance, temp, scanned, knapVars,
                   svcVars>>

\* variant: one more scan is allowed at the cap
TwoOptMoreAtCap == improved /\ iterations <= max_iterations

\* `while improved and iterations < max_iterations`
TwoOptMore == improved /\ iterations < max_iterations

RECURSIVE ScanThrough(_, _, _, _, _)
\* variant: the scan goes on after a shorter route was found
ScanThrough(rt, coords, best, ci, ck) ==
    IF ci > Len(coords) - 2 THEN <<>>
    ELSE IF ck > Len(coords) - 1
         THEN ScanThrough(rt, coords, best, ci + 1, ci + 2)
         ELSE << <<ci, ck>> >> \o ScanThrough(rt, coords, best, ci, ck + 1)

RECURSIVE ScanFrom(_, _, _, _, _)
\* `for i in range(1, n - 1): for k in range(i + 1, n):` from the pair
\* (ci, ck) on, with both `break`s: the pairs tried, in the order tried.
\* The scan stops behind the first pair whose new_distance is shorter.
ScanFrom(rt, coords, best, ci, ck) ==
    IF ci > Len(coords) - 2 THEN <<>>
    ELSE IF ck > Len(coords) - 1
         THEN ScanFrom(rt, coords, best, ci + 1, ci + 2)
         ELSE IF Shorter(calculate_route_distance(two_opt_swap(rt, ci, ck),
                                                  coords), best)
              THEN << <<ci, ck>> >>
              ELSE << <<ci, ck>> >> \o ScanFrom(rt, coords, best, ci, ck + 1)

RECURSIVE LeastOf(_)
\* min over a non-empty sequence of lengths
LeastOf(ds) ==
    IF Len(ds) = 1 THEN ds[1]
    ELSE LET m == LeastOf(Tail(ds))
         IN  IF ds[1] < m THEN ds[1] ELSE m

\* One turn of the outer loop: the scan, and the move to the last pair
\* tried when it is shorter (best_distance does not change before it).
TwoOptIter ==
    /\ pc = "2opt_loop"
    /\ TwoOptMore
    /\ iterations' = iterations + 1
    /\ LET tried == ScanFrom(route, coordinates, best_distance, 1, 2)
           lengths == [x \in DOMAIN tried |->
                          calculate_route_distance(
                              two_opt_swap(route, tried[x][1], tried[x][2]),
                              coordinates)]
           hit == /\ tried # <<>>
                  /\ Shorter(lengths[Len(tried)], best_distance)
       IN  /\ scanned' = tried
           /\ shortest_seen' = LeastOf(<<shortest_seen>> \o lengths)
           /\ IF hit
              THEN LET pr == tried[Len(tried)]
                       new_route == two_opt_swap(route, pr[1], pr[2])
                   IN  /\ best_route' = new_route
                       /\ best_distance' = lengths[Len(tried)]
                       /\ route' = new_route
                       /\ improved' = TRUE
              ELSE /\ improved' = FALSE
                   /\ UNCHANGED <<route, best_route, best_distance>>
    /\ UNCHANGED <<pc, tspArgs, current_distance, temp, ret, start_route,
                   knapVars, svcVars>>

TwoOptReturn ==
    /\ pc = "2opt_loop"
    /\ ~TwoOptMore
    /\ ret' = <<best_route, best_distance>>
    /\ pc' = "returned"
    /\ UNCHANGED <<tspArgs, route, best_route, best_distance,
                   current_distance, improved, iterations, temp, start_route,
                   scanned, shortest_seen, knapVars, svcVars>>

\* --------------------------------------------------- tsp_simulated_annealing
\* cooling_rate as a fraction <<numerator, denominator>>
cooling_rate == <<1, 2>>

\* temp * cooling_rate; the temperatures of InitialTemps are powers of two
\* large enough that no turn within the iteration bound rounds
Cool(t) == (t * cooling_rate[1]) \div cooling_rate[2]

RoutesOf(n) ==
    {r \in [1..n -> 0..(n - 1)] : \A x, y \in 1..n : r[x] = r[y] => x = y}

SaStart ==
    /\ pc = "call"
    /\ algorithm = "simulated_annealing"
    /\ LET n == Len(coordinates)
       IN  IF n < 2
           THEN /\ ret' = <<Range(n), 0>>
                /\ start_route' = Range(n)
                /\ pc' = "returned"
                /\ UNCHANGED <<route, best_route, best_distance,
                               current_distance, temp, iterations,
                               shortest_seen>>
           ELSE \E r \in IF initial_route = None
                         THEN RoutesOf(n)     \* random.shuffle(route)
                         ELSE {initial_route} :
                    /\ route' = r
                    /\ start_route' = r
                    /\ best_route' = r
                    /\ best_distance' = calculate_route_distance(r, coordinates)
                    /\ current_distance' =
                           calculate_route_distance(r, coordinates)
                    /\ shortest_seen' =
                           calculate_route_distance(r, coordinates)
                    /\ temp' = initial_temp
                    /\ iterations' = 0
                    /\ pc' = "sa_loop"
                    /\ UNCHANGED ret
    /\ UNCHANGED <<tspArgs, improved, scanned, knapVars, svcVars>>

\* variant: the loop also runs at temp = min_temp
SaMoreInclusive(t, mt) == t >= mt /\ iterations < max_iterations

\* `while temp > min_temp and iterations < max_iterations`
SaMore(t, mt) == t > mt /\ iterations < max_iterations

\* the values random.randint(a, b) can return (none: it raises ValueError)
RandInt(a, b) == a..b

\* `delta < 0 or random.random() < math.exp(-delta / temp)` can be true:
\* inside the loop temp > min_temp >= 0, exp(0) = 1.0 exceeds every draw
\* from [0, 1), and for delta > 0 the exponential lies strictly between 0
\* and 1
MayAccept(delta) == TRUE

\* variant: the draw alone decides, also for a shorter neighbour
MayRejectShorter(delta) == TRUE

\* the same condition can be false
MayReject(delta) == delta > 0

\* One turn of the loop: draw the cut points, accept or reject, cool down.
SaStep ==
    /\ pc = "sa_loop"
    /\ SaMore(temp, min_temp)
    /\ iterations' = iterations + 1
    /\ LET n == Len(coordinates)
       IN  IF RandInt(1, n - 2) = {}
           THEN /\ pc' = "raised"
                /\ UNCHANGED <<route, current_distance, best_route,
                               best_distance, temp, shortest_seen>>
           ELSE \E ci \in RandInt(1, n - 2) : \E ck \in RandInt(ci + 1, n - 1) :
                \E new_route \in {two_opt_swap(route, ci, ck)} :
                \E new_distance \in
                        {calculate_route_distance(new_route, coordinates)} :
                  LET delta == new_distance - current_distance
                  IN  /\ \/ /\ MayAccept(delta)
                            /\ route' = new_route
                            /\ current_distance' = new_distance
                            /\ IF new_distance < best_distance
                               THEN /\ best_route' = new_route
                                    /\ best_distance' = new_distance
                               ELSE UNCHANGED <<best_route, best_distance>>
                         \/ /\ MayReject(delta)
                            /\ UNCHANGED <<route, current_distance,
                                           best_route, best_distance>>
                      /\ shortest_seen' =
                             LeastOf(<<shortest_seen, new_distance>>)
                      /\ temp' = Cool(temp)
                      /\ pc' = "sa_loop"
    /\ UNCHANGED <<tspArgs, improved, ret, start_route, scanned, knapVars,
                   svcVars>>

SaReturn ==
    /\ pc = "sa_loop"
    /\ ~SaMore(temp, min_temp)
    /\ ret' = <<best_route, best_distance>>
    /\ pc' = "returned"
    /\ UNCHANGED <<tspArgs, route, best_route, best_distance,
                   current_distance, improved, iterations, temp, start_route,
                   scanned, shortest_seen, knapVars, svcVars>>

\* ------------------------------------------------------------ instances
ItemLists(dom) == UNION {[1..n -> dom] : n \in 0..MaxItems}

PlainItems == [value : Values, cost : 0..MaxCost, weight : Weights,
               category : {""}]

LimitMaps == UNION {[S -> Limits] : S \in SUBSET Cats}

\* the locals of knapsack_dp at the first turn of its item loop
KnapLocals(its, bud, mw, limit) ==
    /\ items = its
    /\ budget = bud
    /\ max_weight = mw
    /\ category_limit = limit
    /\ dp = [s \in {<<0, 0>>} |-> 0]
    /\ dp_keys = << <<0, 0>> >>
    /\ parent = [s \in {<<0, 0>>} |-> None]
    /\ i = 1
    /\ current_states = << <<0, 0>> >>
    /\ j = 1
    /\ best_value = 0
    /\ best_state = <<0, 0>>
    /\ current_state = <<0, 0>>
    /\ selected_indices = <<>>
    /\ dp_ret = None
    /\ indexed_items = <<>>
    /\ g_pos = 1
    /\ selected_items = <<>>
    /\ total_cost = 0
    /\ total_weight = 0
    /\ total_value = 0
    /\ category_counts = [c \in Cats |-> 0]

KnapInit(its, bud, mw, limit) ==
    /\ KnapLocals(its, bud, mw, limit)
    /\ pc = IF Len(its) > 0 THEN "dp_loop" ELSE "dp_best"

\* no knapsack call is in progress
KnapIdle == KnapLocals(<<>>, 0, 0, <<>>)

\* no TSP call is in progress
TspIdle ==
    /\ algorithm = "" /\ coordinates = <<>> /\ initial_route = None
    /\ max_iterations = 0 /\ initial_temp = 0 /\ min_temp = 0
    /\ route = <<>> /\ best_route = <<>> /\ best_distance = 0
    /\ current_distance = 0 /\ improved = FALSE /\ iterations = 0
    /\ temp = 0 /\ ret = None /\ start_route = <<>>
    /\ scanned = <<>> /\ shortest_seen = 0

\* no service call has returned or raised
SvcIdle == called = "" /\ result = None /\ error = None

vars == <<pc, knapVars, tspVars, svcVars>>

\* Instances without category limits.
Init ==
    \E its \in ItemLists(PlainItems), bud \in 0..MaxBudget, mw \in WeightCaps :
        KnapInit(its, bud, mw, <<>>) /\ TspIdle /\ SvcIdle

Next ==
    \/ DpStep
    \/ DpBest
    \/ DpTraceStep
    \/ DpFinish
    \/ GreedySort
    \/ GreedyStep

Spec == Init /\ [][Next]_vars

\* Instances with categories and a category-limit map (possibly empty).
CatItems == [value : {1}, cost : {0, Sub}, weight : Weights, category : Cats]

InitCat ==
    \E its \in ItemLists(CatItems), bud \in {0, Sub, 2 * Sub},
       mw \in WeightCaps, limit \in LimitMaps :
        KnapInit(its, bud, mw, limit) /\ TspIdle /\ SvcIdle

SpecCat == InitCat /\ [][Next]_vars

\* The three-item scenario: values 60, 100, 120, costs 10, 20, 30, weights
\* 1, 2, 3 (Whole is the amount 1.0), in every order of the item list and
\* with a tight or a loose budget and weight cap.
Whole == 100 * Sub

ScenarioItems ==
    << [value |-> 60, cost |-> 10 * Whole, weight |-> 1 * Whole, category |-> ""],
       [value |-> 100, cost |-> 20 * Whole, weight |-> 2 * Whole, category |-> ""],
       [value |-> 120, cost |-> 30 * Whole, weight |-> 3 * Whole, category |-> ""] >>

ScenarioBudgets == {30 * Whole, 50 * Whole}

ScenarioWeightCaps == {3 * Whole, 5 * Whole}

InitScenario ==
    \E order \in Permutations(DOMAIN ScenarioItems),
       bud \in ScenarioBudgets, mw \in ScenarioWeightCaps :
        /\ KnapInit([p \in DOMAIN ScenarioItems |-> ScenarioItems[order[p]]],
                    bud, mw, <<>>)
        /\ TspIdle
        /\ SvcIdle

SpecScenario == InitScenario /\ [][Next]_vars

\* A call of one TSP solver: the first n sites of a layout, a route to
\* start from (a permutation of 0..n-1) or none, and the search parameters.
InitTsp ==
    /\ \E lay \in Layouts, n \in 0..MaxN : coordinates = SubSeq(lay, 1, n)
    /\ algorithm \in {"2opt", "simulated_annealing"}
    /\ initial_route \in {None} \cup RoutesOf(Len(coordinates))
    /\ max_iterations \in 0..MaxIter
    /\ IF algorithm = "2opt"
       THEN initial_temp = 0 /\ min_temp = 0
       ELSE initial_temp \in InitialTemps /\ min_temp \in MinTemps
    /\ route = <<>> /\ best_route = <<>> /\ best_distance = 0
    /\ current_distance = 0 /\ improved = FALSE /\ iterations = 0
    /\ temp = 0 /\ ret = None /\ start_route = <<>>
    /\ scanned = <<>> /\ shortest_seen = 0
    /\ KnapIdle
    /\ SvcIdle
    /\ pc = "call"

NextTsp ==
    \/ TwoOptStart
    \/ TwoOptIter
    \/ TwoOptReturn
    \/ SaStart
    \/ SaStep
    \/ SaReturn

SpecTsp == InitTsp /\ [][NextTsp]_vars

\* ---------------------------------------------------------------- services
\* f"Unknown algorithm: {algorithm}"
UnknownAlgorithm(alg) == <<"Unknown algorithm: ", alg>>

\* solve_packing: the choice of the solver
SolvePacking ==
    /\ pc = "solve_packing"
    /\ IF algorithm = "dp"
       THEN /\ pc' = IF Len(items) > 0 THEN "dp_loop" ELSE "dp_best"
            /\ UNCHANGED error
       ELSE IF algorithm = "greedy"
            THEN pc' = "greedy_sort" /\ UNCHANGED error
            ELSE error' = UnknownAlgorithm(algorithm) /\ pc' = "raised"
    /\ UNCHANGED <<knapVars, tspVars, called, result>>

\* (x / of * 100) if of > 0 else 0, as a fraction <<numerator, denominator>>
UsedPct(x, of) == IF of > 0 THEN <<x * 100, of>> ELSE <<0, 1>>

\* the dict solve_packing returns
PackingResult(selected, value, cost, weight) ==
    [selected_items |-> selected,
     total_value |-> value,
     total_cost |-> cost,
     total_weight |-> weight,
     budget_used_pct |-> UsedPct(cost, budget),
     weight_used_pct |-> UsedPct(weight, max_weight),
     algorithm |-> algorithm]

\* knapsack_dp has returned to solve_packing
PackingDpReturn ==
    /\ pc = "greedy_sort"
    /\ algorithm = "dp"
    /\ result' = PackingResult(dp_ret.selected, dp_ret.total_value,
                               dp_ret.total_cost, dp_ret.total_weight)
    /\ pc' = "replied"
    /\ UNCHANGED <<knapVars, tspVars, called, error>>

\* knapsack_greedy has returned to solve_packing
PackingGreedyReturn ==
    /\ pc = "done"
    /\ algorithm = "greedy"
    /\ result' = PackingResult(selected_items, total_value, total_cost,
                               total_weight)
    /\ pc' = "replied"
    /\ UNCHANGED <<knapVars, tspVars, called, error>>

\* solve_route up to the call of the solver
SolveRoute ==
    /\ pc = "solve_route"
    /\ LET n == Len(coordinates)
       IN  IF n < 2
           THEN /\ result' = [route |-> <<0>>,
                              total_distance |-> 0,
                              route_order |-> <<0>>,
                              algorithm |-> algorithm]
                /\ pc' = "replied"
                /\ UNCHANGED error
           ELSE IF algorithm \in {"2opt", "simulated_annealing"}
                THEN pc' = "call" /\ UNCHANGED <<result, error>>
                ELSE /\ error' = UnknownAlgorithm(algorithm)
                     /\ pc' = "raised"
                     /\ UNCHANGED result
    /\ UNCHANGED <<knapVars, tspVars, called>>

\* route[start_idx:] + route[:start_idx] with start_idx = route.index(0)
RotateToHome(rt) ==
    IF rt[1] # 0
    THEN LET start_idx == CHOOSE p \in 1..Len(rt) :
                              rt[p] = 0 /\ \A q \in 1..(p - 1) : rt[q] # 0
         IN  SubSeq(rt, start_idx, Len(rt)) \o SubSeq(rt, 1, start_idx - 1)
    ELSE rt

\* the solver has returned to solve_route: rotate, add the way home, build
\* the result
RouteReturn ==
    /\ pc = "returned"
    /\ LET rotated == RotateToHome(ret[1])
           open == rotated[Len(rotated)] # 0
           order == IF open THEN Append(rotated, 0) ELSE rotated
           distance ==
               IF open
               THEN Fl(ret[2] + calculate_distance(
                                    coordinates[order[Len(order) - 1] + 1],
                                    coordinates[1]))
               ELSE ret[2]
       IN  result' = [route |-> order,
                      total_distance |-> distance,
                      route_order |-> order,
                      coordinates |-> coordinates,
                      algorithm |-> algorithm]
    /\ pc' = "replied"
    /\ UNCHANGED <<knapVars, tspVars, called, error>>

PackingSelectors == {"dp", "greedy", "optimal"}

RouteSelectors == {"2opt", "simulated_annealing", "annealing"}

\* max_iterations of tsp_2opt when the caller passes none
DefaultMaxIterations == 1000

\* A call of solve_packing on the first items of the scenario list in some
\* order (possibly none), or of solve_route on a home and the first stops
\* of a layout (possibly none); each with a selector, supported or not.
\* solve_route passes only the coordinates: tsp_2opt runs to a local
\* optimum under its default cap, tsp_simulated_annealing starts from a
\* shuffled route and is followed for MaxIter turns.
InitService ==
    /\ result = None /\ error = None
    /\ \/ /\ \E order \in Permutations(DOMAIN ScenarioItems),
                 n \in 0..Len(ScenarioItems),
                 bud \in ScenarioBudgets, mw \in ScenarioWeightCaps :
                  KnapLocals([p \in 1..n |-> ScenarioItems[order[p]]],
                             bud, mw, <<>>)
          /\ algorithm \in PackingSelectors
          /\ coordinates = <<>>
          /\ max_iterations = 0 /\ initial_temp = 0 /\ min_temp = 0
          /\ called = "solve_packing"
          /\ pc = "solve_packing"
       \/ /\ KnapIdle
          /\ \E lay \in Layouts, n \in 1..MaxN :
                  coordinates = SubSeq(lay, 1, n)
          /\ algorithm \in RouteSelectors
          /\ max_iterations = IF algorithm = "2opt"
                              THEN DefaultMaxIterations ELSE MaxIter
          /\ initial_temp = CHOOSE t \in InitialTemps :
                                \A u \in InitialTemps : u <= t
          /\ min_temp = CHOOSE t \in MinTemps : \A u \in MinTemps : t <= u
          /\ called = "solve_route"
          /\ pc = "solve_route"
    /\ initial_route = None
    /\ route = <<>> /\ best_route = <<>> /\ best_distance = 0
    /\ current_distance = 0 /\ improved = FALSE /\ iterations = 0
    /\ temp = 0 /\ ret = None /\ start_route = <<>>
    /\ scanned = <<>> /\ shortest_seen = 0

NextService ==
    \/ SolvePacking
    \/ DpStep
    \/ DpBest
    \/ DpTraceStep
    \/ DpFinish
    \/ PackingDpReturn
    \/ (algorithm = "greedy" /\ GreedySort)
    \/ GreedyStep
    \/ PackingGreedyReturn
    \/ SolveRoute
    \/ TwoOptStart
    \/ TwoOptIter
    \/ TwoOptReturn
    \/ SaStart
    \/ SaStep
    \/ SaReturn
    \/ RouteReturn

SpecService == InitService /\ [][NextService]_vars

\* ---------------------------------------------------------------- claims
\* knapsack_dp has returned (its result record dp_ret is set)
DpReturned == pc \in {"greedy_sort", "greedy_loop", "done"}

NoDuplicates(s) == \A x, y \in 1..Len(s) : s[x] = s[y] => x = y

\* C1: no item index occurs more than once in the selection knapsack_dp
\* returns (each item contributes at most once).
C1_NoItemTwice == DpReturned => NoDuplicates(dp_ret.selected)

SetSum(its, S, field) ==
    LET RECURSIVE sum(_)
        sum(T) == IF T = {} THEN 0
                  ELSE LET x == CHOOSE x \in T : TRUE
                       IN  its[x][field] + sum(T \ {x})
    IN  sum(S)

\* the subsets of the items (each item at most once) within both bounds
Feasible(its, bud, mw) ==
    {S \in SUBSET (1..Len(its)) :
        SetSum(its, S, "cost") <= bud /\ SetSum(its, S, "weight") <= mw}

Optimum(its, bud, mw) ==
    LET vals == {SetSum(its, S, "value") : S \in Feasible(its, bud, mw)}
    IN  CHOOSE v \in vals : \A u \in vals : u <= v

\* every cost, every weight, the budget and max_weight are whole multiples
\* of 0.01
AllWhole ==
    /\ budget % Sub = 0
    /\ max_weight % Sub = 0
    /\ \A x \in 1..Len(items) :
           items[x].cost % Sub = 0 /\ items[x].weight % Sub = 0

\* C2: with no category limits and amounts that are whole multiples of
\* 0.01, the total_value knapsack_dp returns is the maximum summed value
\* over the subsets of the items within budget and max_weight.
C2_DpExact ==
    (DpReturned /\ AllWhole /\ DOMAIN category_limit = {})
        => dp_ret.total_value = Optimum(items, budget, max_weight)

\* C3: the selections knapsack_dp and knapsack_greedy return have
\* total_cost <= budget and total_weight <= max_weight (unscaled amounts).
C3_WithinBounds ==
    /\ DpReturned =>
           /\ dp_ret.total_cost <= budget
           /\ dp_ret.total_weight <= max_weight
    /\ pc \in {"greedy_loop", "done"} =>
           /\ total_cost <= budget
           /\ total_weight <= max_weight

CountCat(its, sel, cat) ==
    Cardinality({x \in 1..Len(sel) : CategoryOf(its[sel[x]]) = cat})

\* C4: for every category key of the limit map, the selections of
\* knapsack_dp and of knapsack_greedy hold at most that many items of the
\* category.
C4_CategoryCaps ==
    \A cat \in DOMAIN category_limit :
        /\ DpReturned =>
               CountCat(items, dp_ret.selected, cat) <= category_limit[cat]
        /\ pc \in {"greedy_loop", "done"} =>
               CountCat(items, selected_items, cat) <= category_limit[cat]

RECURSIVE ReachesOrigin(_, _, _)
\* following the predecessor links from s ends at a state with no
\* predecessor within fuel links
ReachesOrigin(par, s, fuel) ==
    IF par[s] = None THEN s = <<0, 0>>
    ELSE IF fuel = 0 THEN FALSE
         ELSE ReachesOrigin(par, <<par[s][1], par[s][2]>>, fuel - 1)

\* C6: the predecessor links followed from any state reach the origin
\* (0,0) after finitely many steps (the parent map has no cycle or
\* self-loop), so the traceback of knapsack_dp ends.
C6_TraceTerminates ==
    /\ \A s \in DOMAIN parent : ReachesOrigin(parent, s, Len(dp_keys))
    /\ pc = "dp_trace" => Len(selected_indices) < TraceCap

\* the route is a permutation of 0..n-1 for the n coordinates of the call
IsRoute(r) ==
    /\ DOMAIN r = 1..Len(coordinates)
    /\ \A x \in DOMAIN r : r[x] \in 0..(Len(coordinates) - 1)
    /\ \A x, y \in DOMAIN r : r[x] = r[y] => x = y

Length(r) == calculate_route_distance(r, coordinates)

\* tsp_2opt is past its initialisation with n >= 2
TwoOptSearching ==
    /\ algorithm = "2opt"
    /\ pc \in {"2opt_loop", "returned"}
    /\ Len(coordinates) >= 2

\* C7: in tsp_2opt the working route always equals best_route, whose
\* length is best_distance and is at most the length of the initial route;
\* no outer iteration increases best_distance; the returned length is at
\* most the initial route's length and is the cycle length of the returned
\* route.
C7_TwoOptNeverLonger ==
    /\ [](TwoOptSearching =>
            /\ route = best_route
            /\ best_distance = Length(best_route)
            /\ best_distance <= Length(start_route))
    /\ []((algorithm = "2opt" /\ pc = "returned") =>
            /\ ret[2] <= Length(start_route)
            /\ ret[2] = Length(ret[1]))
    /\ [][pc = "2opt_loop" => best_distance' <= best_distance]_vars

\* tsp_2opt has returned after at least two scans, with a route shorter
\* than the one it started from
C7_Witness ==
    /\ algorithm = "2opt"
    /\ pc = "returned"
    /\ iterations >= 2
    /\ ret[2] < Length(start_route)

\* C8: every route tsp_2opt and tsp_simulated_annealing hold, and the
\* route each returns, is a permutation of 0..n-1 with the starting
\* route's element at position 0.
C8_PermutationAnchor ==
    /\ (pc \in {"2opt_loop", "sa_loop", "raised"}
            \/ (pc = "returned" /\ Len(coordinates) >= 2)) =>
           /\ IsRoute(start_route)
           /\ IsRoute(route) /\ route[1] = start_route[1]
           /\ IsRoute(best_route) /\ best_route[1] = start_route[1]
    /\ pc = "returned" =>
           /\ IsRoute(ret[1])
           /\ Len(coordinates) >= 1 => ret[1][1] = start_route[1]

\* a solver has returned a route that differs from the one it started
\* from, whose anchor is not location 0
C8_Witness ==
    /\ pc = "returned"
    /\ Len(coordinates) >= 4
    /\ start_route[1] # 0
    /\ ret[1] # start_route
    /\ ret[1][1] = start_route[1]

\* C9: for n >= 2 coordinates every iteration of tsp_simulated_annealing
\* finds its cut points (1 <= i <= n-2, i+1 <= k <= n-1) and the call
\* never raises.
C9_SaNeverRaises ==
    (algorithm = "simulated_annealing" /\ Len(coordinates) >= 2) =>
        /\ pc # "raised"
        /\ (pc = "sa_loop" /\ iterations > 0) =>
               RandInt(1, Len(coordinates) - 2) # {}

\* tsp_simulated_annealing is called with a supplied route and with
\* initial_temp = 0.0 or min_temp >= initial_temp
ZeroIterationCall ==
    /\ algorithm = "simulated_annealing"
    /\ initial_route # None
    /\ (initial_temp = 0 \/ min_temp >= initial_temp)

ScenarioCall ==
    /\ items = ScenarioItems
    /\ budget = 50 * Whole
    /\ max_weight = 5 * Whole
    /\ DOMAIN category_limit = {}

\* value / cost of the item at position p of the sorted list equals r
RatioAt(p, r) ==
    items[indexed_items[p]].value * Whole = r * items[indexed_items[p]].cost

\* C11: on the scenario knapsack_dp returns exactly the second and third
\* items with total_value 220; knapsack_greedy processes the items in ratio
\* order 6, 5, 4, admits the first and second, rejects the third on budget
\* and returns total_value 160.
C11_Scenario ==
    ScenarioCall =>
        /\ DpReturned =>
               /\ dp_ret.selected = <<2, 3>>
               /\ dp_ret.total_value = 220
        /\ pc \in {"greedy_loop", "done"} =>
               /\ indexed_items = <<1, 2, 3>>
               /\ RatioAt(1, 6) /\ RatioAt(2, 5) /\ RatioAt(3, 4)
        /\ (pc = "greedy_loop" /\ g_pos = 3) =>
               /\ selected_items = <<1, 2>>
               /\ total_cost + items[3].cost > budget
        /\ pc = "done" =>
               /\ selected_items = <<1, 2>>
               /\ total_value = 160

\* both solvers have returned on the scenario and their values differ
C11_Witness ==
    /\ ScenarioCall
    /\ pc = "done"
    /\ dp_ret.total_value = 220
    /\ total_value = 160

\* the selector passed to the service is none of those it supports
UnknownSelector ==
    \/ called = "solve_packing" /\ algorithm \notin {"dp", "greedy"}
    \/ called = "solve_route"
           /\ algorithm \notin {"2opt", "simulated_annealing"}

\* C12: solve_packing and solve_route called with an unsupported selector
\* fail with an error naming that string and produce no result record,
\* whatever the other inputs (an empty item list, an empty stop list).
C12_UnknownSelectorFails ==
    UnknownSelector =>
        /\ result = None
        /\ pc \notin {"solve_packing", "solve_route"} =>
               pc = "raised" /\ error = UnknownAlgorithm(algorithm)

\* route[k:] + route[:k]: the route turned by k places
Rotated(r, k) == SubSeq(r, k + 1, Len(r)) \o SubSeq(r, 1, k)

\* the cyclic rotations of the route and its full reversal
Turnings(r) == {Rotated(r, k) : k \in 0..(Len(r) - 1)} \cup {Reverse(r)}

\* a solver has just computed the length of the route it was given
LengthTaken ==
    /\ pc \in {"2opt_loop", "sa_loop"}
    /\ iterations = 0
    /\ initial_route # None

\* C13 as stated: calculate_route_distance returns the same value for a
\* permutation route, each of its cyclic rotations and its full reversal,
\* and 0 for a route of length < 2.
C13_SameValue ==
    /\ Len(initial_route) < 2 => Length(initial_route) = 0
    /\ LengthTaken =>
           \A t \in Turnings(initial_route) : Length(t) = best_distance

Distance(a, b) == IF a < b THEN b - a ELSE a - b

\* the two lengths lie within n units in the last place of the larger
Close(a, b, n) == Distance(a, b) <= n * Quantum(IF a < b THEN b ELSE a, 1)

RECURSIVE PlainSum(_, _)
\* the sum of the legs of the cycle from position p on, without rounding
PlainSum(r, p) ==
    IF p > Len(r) THEN 0
    ELSE calculate_distance(coordinates[r[p] + 1],
                            coordinates[r[NextWrap(r, p)] + 1])
         + PlainSum(r, p + 1)

\* C13, amended: the values for the route, its rotations and its reversal
\* agree up to the rounding of the float additions (they are at most n
\* units in the last place apart, and equal when no partial sum rounds);
\* for a route of length < 2 the value is 0.
C13_SameUpToRounding ==
    /\ Len(initial_route) < 2 => Length(initial_route) = 0
    /\ LengthTaken =>
           \A t \in Turnings(initial_route) :
               /\ Close(Length(t), best_distance, Len(t))
               /\ PlainSum(t, 1) = PlainSum(initial_route, 1)
               /\ PlainSum(t, 1) < 2 ^ MantBits => Length(t) = best_distance

\* a length was taken whose partial sums round, and a rotation of the
\* route sums to another value
C13_Witness ==
    /\ LengthTaken
    /\ Len(initial_route) >= 3
    /\ \E k \in 1..(Len(initial_route) - 1) :
           Length(Rotated(initial_route, k)) # best_distance

\* the step is one turn of the outer loop of tsp_2opt
TwoOptTurn == pc = "2opt_loop" /\ iterations' = iterations + 1

\* the first pair, i ascending then k ascending, of a non-empty set
FirstPair(S) == CHOOSE a \in S : \A b \in S : ScanBefore(a, b)

\* the pairs tried are exactly the pairs up to `last`, in ascending order
TriedUpTo(tried, last) ==
    /\ \A x \in 1..(Len(tried) - 1) :
           tried[x] # tried[x + 1] /\ ScanBefore(tried[x], tried[x + 1])
    /\ {tried[x] : x \in DOMAIN tried}
           = {pr \in CutPairs(Len(coordinates)) : ScanBefore(pr, last)}

\* C14: every outer iteration of tsp_2opt scans the pairs (i, k) from
\* i = 1 in ascending order of i then k, applies at most one reversal, the
\* one of the first pair whose reversal of the current route is strictly
\* shorter, and tries no pair after it; with no such pair it tries every
\* pair and changes nothing.
C14_FirstImprovement ==
    [][TwoOptTurn =>
         LET imp == Improving(route, coordinates, best_distance)
             all == CutPairs(Len(coordinates))
         IN  IF imp = {}
             THEN /\ route' = route /\ best_route' = best_route
                  /\ best_distance' = best_distance
                  /\ ~improved'
                  /\ all # {} =>
                         TriedUpTo(scanned',
                                   CHOOSE a \in all : \A b \in all : ScanBefore(b, a))
                  /\ all = {} => scanned' = <<>>
             ELSE /\ route' = two_opt_swap(route, FirstPair(imp)[1],
                                            FirstPair(imp)[2])
                  /\ best_route' = route'
                  /\ best_distance' = Length(route')
                  /\ improved'
                  /\ scanned'[1] = <<1, 2>>
                  /\ scanned'[Len(scanned')] = FirstPair(imp)
                  /\ TriedUpTo(scanned', FirstPair(imp))]_vars

\* a second scan of tsp_2opt has started over and stopped at a shorter
\* route before it reached the last pair, after pairs that were no shorter
C14_Witness ==
    /\ algorithm = "2opt"
    /\ pc = "2opt_loop"
    /\ iterations >= 2
    /\ improved
    /\ Len(scanned) > 1
    /\ Len(scanned) < Cardinality(CutPairs(Len(coordinates)))

\* tsp_2opt has returned because its last scan found no shorter route
ReturnedAtRest ==
    /\ algorithm = "2opt"
    /\ pc = "returned"
    /\ Len(coordinates) >= 2
    /\ ~improved

\* C15: tsp_2opt makes at most max_iterations outer scans, and when it
\* returns because a full scan found no improving move, no reversal of a
\* segment [i, k], 1 <= i < k <= n-1, of the returned route has a strictly
\* smaller cycle length than the returned route.
C15_CapAndLocalOptimum ==
    /\ algorithm = "2opt" => iterations <= max_iterations
    /\ ReturnedAtRest =>
           \A pr \in CutPairs(Len(coordinates)) :
               ~(Length(two_opt_swap(ret[1], pr[1], pr[2])) < Length(ret[1]))

\* tsp_2opt has returned below its cap, at rest, with a route other than
\* the one it started from
C15_Witness ==
    /\ ReturnedAtRest
    /\ Len(coordinates) >= 4
    /\ iterations < max_iterations
    /\ ret[1] # start_route

\* tsp_simulated_annealing is in or behind its loop
SaSearching ==
    /\ algorithm = "simulated_annealing"
    /\ pc \in {"sa_loop", "returned"}
    /\ Len(coordinates) >= 2

\* C16: in tsp_simulated_annealing, after every iteration best_distance is
\* at most current_distance and equals the least of the initial route's
\* length and the lengths of all neighbours generated so far, whatever the
\* acceptance draw; a neighbour strictly shorter than best_distance always
\* becomes the best route.
C16_BestIsLeastSeen ==
    /\ [](SaSearching =>
            /\ best_distance <= current_distance
            /\ best_distance = shortest_seen
            /\ best_distance = Length(best_route)
            /\ current_distance = Length(route))
    /\ [][(SaSearching /\ iterations' = iterations + 1 /\ pc' = "sa_loop") =>
             /\ shortest_seen' <= shortest_seen
             /\ shortest_seen' < best_distance =>
                    /\ best_distance' = shortest_seen'
                    /\ Length(best_route') = shortest_seen'
                    /\ \E ci \in RandInt(1, Len(coordinates) - 2) :
                       \E ck \in RandInt(ci + 1, Len(coordinates) - 1) :
                           best_route' = two_opt_swap(route, ci, ck)]_vars

\* after some iterations the current route is longer than the best one,
\* which is shorter than the route the search started from
C16_Witness ==
    /\ SaSearching
    /\ iterations >= 2
    /\ current_distance > best_distance
    /\ best_distance < Length(start_route)

RECURSIVE LegSum(_, _, _)
\* the sum of the leg distances between consecutive entries of the order,
\* from position p on, added one after the other to total
LegSum(order, p, total) ==
    IF p >= Len(order) THEN total
    ELSE LegSum(order, p + 1,
                Fl(total + calculate_distance(coordinates[order[p] + 1],
                                              coordinates[order[p + 1] + 1])))

\* solve_route has returned its result for a home and at least one stop
RouteReplied ==
    /\ called = "solve_route"
    /\ pc = "replied"
    /\ Len(coordinates) >= 2

\* C17: for a home and a non-empty stop list, the route_order solve_route
\* returns starts at index 0, visits every stop index exactly once and ends
\* at index 0, and the total_distance it reports equals the sum of the leg
\* distances between consecutive entries of route_order (the leg back home
\* counted once).
C17_TotalIsSumOfLegs ==
    RouteReplied =>
        LET order == result.route_order
            n == Len(coordinates)
        IN  /\ Len(order) = n + 1
            /\ order[1] = 0 /\ order[n + 1] = 0
            /\ \A stop \in 1..(n - 1) :
                   Cardinality({p \in 1..(n + 1) : order[p] = stop}) = 1
            /\ result.total_distance = LegSum(order, 1, 0)

====
